---- MODULE Spec2Model ----
(***************************************************************************)
(* gimp_spine.py: export of a layered image to a Spine skeleton.           *)
(*                                                                         *)
(* spine_export duplicates the source image, walks the duplicate's layer   *)
(* tree (process_layer), saves every processed leaf as a PNG (save_layers),*)
(* writes the JSON manifest, deletes the duplicate and restores the active *)
(* layer of the source image.                                              *)
(*                                                                         *)
(* A layer tree is a sequence of node records numbered in pre-order: node  *)
(* k's parent has a smaller number (0 = the image itself), and the         *)
(* children of a node are its `layers`, in increasing number.              *)
(***************************************************************************)
EXTENDS Integers, Sequences, FiniteSets, TLC

VARIABLES orig, png_files, json_files, pc, params, img, output, i, agenda,
          to_save, orig_active_layer, log, run, prev

vars == <<orig, png_files, json_files, pc, params, img, output, i, agenda,
          to_save, orig_active_layer, log, run, prev>>

\* ------------------------------------------------------------------ bounds
MaxNodes == 3
MaxSmallNodes == 2
MaxOff == 1
MaxSize == 3
MaxCrop == 1
MaxCanvas == 3

Procs == {1, 2}
NameList == <<"a", "b", "c">>

\* ------------------------------------------------------------ layer trees
EmptyMap == [n \in {} |-> 0]

\* Sequence of the numbers k in from..Len(nodes) whose parent is g: the
\* `layers` attribute of image (g = 0) or group g, in native child order.
RECURSIVE ChildrenFrom(_, _, _)
ChildrenFrom(nodes, g, from) ==
    IF from > Len(nodes) THEN <<>>
    ELSE IF nodes[from].parent = g
         THEN <<from>> \o ChildrenFrom(nodes, g, from + 1)
         ELSE ChildrenFrom(nodes, g, from + 1)

Layers(nodes, g) == ChildrenFrom(nodes, g, 1)

\* hasattr(layer, 'layers')
HasLayers(nodes, k) == nodes[k].group

\* k or one of its ancestor groups, up to the image (0 excluded)
RECURSIVE SelfAndAncestors(_, _)
SelfAndAncestors(nodes, k) ==
    IF k = 0 THEN {} ELSE {k} \cup SelfAndAncestors(nodes, nodes[k].parent)

\* Mutant of Cropped: the content box is not reset to the cropped layer
CroppedKeepBox(layer) ==
    [layer EXCEPT !.offsets = <<layer.offsets[1] + layer.bbox[1],
                                layer.offsets[2] + layer.bbox[2]>>,
                  !.width   = layer.bbox[3],
                  !.height  = layer.bbox[4]]

\* plug_in_autocrop_layer: the layer is cut down to the bounding box of its
\* content; the box is afterwards the whole layer.
Cropped(layer) ==
    [layer EXCEPT !.offsets = <<layer.offsets[1] + layer.bbox[1],
                                layer.offsets[2] + layer.bbox[2]>>,
                  !.width   = layer.bbox[3],
                  !.height  = layer.bbox[4],
                  !.bbox    = <<0, 0, layer.bbox[3], layer.bbox[4]>>]

\* Mutant of FloorHalf: the half is rounded up
CeilHalf(n) == (n + 1) \div 2

\* math.floor(n / 2) on Python integers
FloorHalf(n) == n \div 2

\* The record stored under attachments[layer_name][layer_name]
Attachment(image, layer) ==
    LET x0 == layer.offsets[1]
        y0 == layer.offsets[2]
        x1 == x0 + FloorHalf(layer.width)
        y1 == y0 + FloorHalf(layer.height)
        x2 == x1 - FloorHalf(image.width)
        y2 == image.height - y1
    IN  [x |-> x2, y |-> y2, rotation |-> 0,
         width |-> layer.width, height |-> layer.height]

SlotRecord(layer_name) ==
    [name |-> layer_name, bone |-> "root", attachment |-> layer_name]

\* Mutant of AddSlot: append and insert-at-front exchanged
AddSlotSwapped(slots, layer_name, reverse_draw_order) ==
    IF reverse_draw_order
    THEN <<SlotRecord(layer_name)>> \o slots
    ELSE Append(slots, SlotRecord(layer_name))

\* slots.append(...) when reverse_draw_order, else slots.insert(0, ...)
AddSlot(slots, layer_name, reverse_draw_order) ==
    IF reverse_draw_order
    THEN Append(slots, SlotRecord(layer_name))
    ELSE <<SlotRecord(layer_name)>> \o slots

\* Mutant of AddAttachment: the mapping is replaced instead of extended
AddAttachmentReplace(attachments, layer_name, rec) ==
    (layer_name :> (layer_name :> rec))

\* Mutant of AddAttachment: an existing key is kept
AddAttachmentKeepFirst(attachments, layer_name, rec) ==
    attachments @@ (layer_name :> (layer_name :> rec))

\* attachments[layer_name] = {layer_name: {...}}
AddAttachment(attachments, layer_name, rec) ==
    (layer_name :> (layer_name :> rec)) @@ attachments

\* The initial JSON document
FreshOutput ==
    [bones      |-> <<[name |-> "root"]>>,
     slots      |-> <<>>,
     skins      |-> [default |-> EmptyMap],
     animations |-> EmptyMap]

\* The top-level layer passes the visibility test of the export loop
Selected(layer, export_visible_only) ==
    layer.visible \/ ~export_visible_only

\* os.path.join(dir_name, '%s.png' % layer.name)
PngPath(dir_name, layer_name) == dir_name \o "/" \o layer_name \o ".png"

\* os.path.splitext(os.path.basename(filename))[0]
Stem(filename) == filename.stem

\* os.path.join(dir_name, '%s.json' % json_filename)
JsonPath(dir_name, json_filename, filename) ==
    dir_name \o "/"
      \o (IF json_filename = "" THEN Stem(filename) ELSE json_filename)
      \o ".json"

\* What file_png_save writes for a layer: the layer's raster, sized to the
\* layer (resize_to_layers), with the requested compression.
Raster(k, layer, compression) ==
    [layer |-> k, width |-> layer.width, height |-> layer.height,
     compression |-> compression]

NoImage == [status |-> "none", nodes |-> <<>>, width |-> 0, height |-> 0,
            active |-> 0]

\* pdb.gimp_image_duplicate
Duplicate(image) ==
    [status |-> "live", nodes |-> image.nodes, width |-> image.width,
     height |-> image.height, active |-> image.active]

Top(p) == Layers(img[p].nodes, 0)

Event(p, e, k) == log' = [log EXCEPT ![p] = Append(@, <<e, k>>)]

\* ---------------------------------------------------------------- actions
\* spine_export, lines 55-67
Start(p) ==
    /\ pc[p] = "start"
    /\ orig_active_layer' = [orig_active_layer EXCEPT ![p] = orig.active]
    /\ img' = [img EXCEPT ![p] = Duplicate(orig)]
    /\ output' = [output EXCEPT ![p] = FreshOutput]
    /\ i' = [i EXCEPT ![p] = 1]
    /\ pc' = [pc EXCEPT ![p] = "loop"]
    /\ Event(p, "duplicate", 0)
    /\ UNCHANGED <<orig, png_files, json_files, params, agenda, to_save,
                   run, prev>>

\* for layer in img.layers: the layer passes the test; process_layer is
\* called on it with an empty `processed`
EnterLayer(p) ==
    /\ pc[p] = "loop"
    /\ i[p] <= Len(Top(p))
    /\ Selected(img[p].nodes[Top(p)[i[p]]], params[p].export_visible_only)
    /\ agenda' = [agenda EXCEPT ![p] = <<Top(p)[i[p]]>>]
    /\ to_save' = [to_save EXCEPT ![p] = <<>>]
    /\ pc' = [pc EXCEPT ![p] = "process"]
    /\ UNCHANGED <<orig, png_files, json_files, params, img, output, i,
                   orig_active_layer, log, run, prev>>

\* for layer in img.layers: the layer fails the test
SkipLayer(p) ==
    /\ pc[p] = "loop"
    /\ i[p] <= Len(Top(p))
    /\ ~Selected(img[p].nodes[Top(p)[i[p]]], params[p].export_visible_only)
    /\ i' = [i EXCEPT ![p] = @ + 1]
    /\ UNCHANGED <<orig, png_files, json_files, pc, params, img, output,
                   agenda, to_save, orig_active_layer, log, run, prev>>

\* process_layer on a group: recurse into the sublayers, in order
Descend(p) ==
    /\ pc[p] = "process"
    /\ agenda[p] # <<>>
    /\ HasLayers(img[p].nodes, Head(agenda[p]))
    /\ agenda' = [agenda EXCEPT
                    ![p] = Layers(img[p].nodes, Head(@)) \o Tail(@)]
    /\ UNCHANGED <<orig, png_files, json_files, pc, params, img, output, i,
                   to_save, orig_active_layer, log, run, prev>>

\* Mutant of AutocropIn: the source image is cropped, not the duplicate
AutocropInSource(p, k) ==
    /\ orig' = [orig EXCEPT !.active = k, !.nodes[k] = Cropped(@)]
    /\ UNCHANGED img

\* process_layer on a leaf, lines 97-99, on the image it was given
AutocropIn(p, k) ==
    /\ img' = [img EXCEPT ![p].active = k,
                          ![p].nodes[k] = Cropped(@)]
    /\ UNCHANGED orig

\* Mutant of LeafEntry: the autocrop is skipped
LeafEntryNoCrop(autocrop_layers) == "emit"

\* Mutant of LeafEntry: the autocrop ignores the option
LeafEntryAlwaysCrop(autocrop_layers) == "crop"

\* Where a leaf's processing starts: "crop" = line 98, "emit" = line 101
LeafEntry(autocrop_layers) == IF autocrop_layers THEN "crop" ELSE "emit"

Autocrop(p) ==
    /\ pc[p] = "process"
    /\ agenda[p] # <<>>
    /\ ~HasLayers(img[p].nodes, Head(agenda[p]))
    /\ LeafEntry(params[p].autocrop_layers) = "crop"
    /\ AutocropIn(p, Head(agenda[p]))
    /\ pc' = [pc EXCEPT ![p] = "emit"]
    /\ Event(p, "autocrop", Head(agenda[p]))
    /\ UNCHANGED <<png_files, json_files, params, output, i, agenda,
                   to_save, orig_active_layer, run, prev>>

\* process_layer on a leaf, lines 101-136
Emit(p) ==
    /\ agenda[p] # <<>>
    /\ \/ pc[p] = "emit"
       \/ /\ pc[p] = "process"
          /\ ~HasLayers(img[p].nodes, Head(agenda[p]))
          /\ LeafEntry(params[p].autocrop_layers) = "emit"
    /\ LET k          == Head(agenda[p])
           layer      == img[p].nodes[k]
           layer_name == layer.name
       IN  /\ output' = [output EXCEPT
                ![p].slots = AddSlot(@, layer_name,
                                     params[p].reverse_draw_order),
                ![p].skins.default =
                    AddAttachment(@, layer_name, Attachment(img[p], layer))]
           /\ to_save' = [to_save EXCEPT ![p] = Append(@, k)]
           /\ Event(p, "flatten", k)
    /\ agenda' = [agenda EXCEPT ![p] = Tail(@)]
    /\ pc' = [pc EXCEPT ![p] = "process"]
    /\ UNCHANGED <<orig, png_files, json_files, params, img, i,
                   orig_active_layer, run, prev>>

\* process_layer returns `processed`; save_layers is called on it
Return(p) ==
    /\ pc[p] = "process"
    /\ agenda[p] = <<>>
    /\ pc' = [pc EXCEPT ![p] = "save"]
    /\ UNCHANGED <<orig, png_files, json_files, params, img, output, i,
                   agenda, to_save, orig_active_layer, log, run, prev>>

\* save_layers: one iteration of the loop
SaveLayer(p) ==
    /\ pc[p] = "save"
    /\ to_save[p] # <<>>
    /\ LET k     == Head(to_save[p])
           layer == img[p].nodes[k]
       IN  /\ png_files' =
                 (PngPath(params[p].dir_name, layer.name) :>
                    Raster(k, layer, params[p].compression)) @@ png_files
           /\ Event(p, "png", k)
    /\ to_save' = [to_save EXCEPT ![p] = Tail(@)]
    /\ UNCHANGED <<orig, json_files, pc, params, img, output, i, agenda,
                   orig_active_layer, run, prev>>

\* save_layers returns; the export loop moves to the next top-level layer
SaveDone(p) ==
    /\ pc[p] = "save"
    /\ to_save[p] = <<>>
    /\ i' = [i EXCEPT ![p] = @ + 1]
    /\ pc' = [pc EXCEPT ![p] = "loop"]
    /\ UNCHANGED <<orig, png_files, json_files, params, img, output, agenda,
                   to_save, orig_active_layer, log, run, prev>>

\* Mutant of LoopDone: the loop may be left before its last layer
LoopDoneEarly(p) == pc[p] = "loop"

\* The export loop has gone through every top-level layer
LoopDone(p) == pc[p] = "loop" /\ i[p] > Len(Top(p))

\* spine_export, lines 77-81
WriteJson(p) ==
    /\ LoopDone(p)
    /\ json_files' =
          (JsonPath(params[p].dir_name, params[p].json_filename,
                    orig.filename) :> output[p]) @@ json_files
    /\ pc' = [pc EXCEPT ![p] = "delete"]
    /\ Event(p, "json", 0)
    /\ UNCHANGED <<orig, png_files, params, img, output, i, agenda, to_save,
                   orig_active_layer, run, prev>>

\* spine_export, line 83
DeleteImage(p) ==
    /\ pc[p] = "delete"
    /\ img' = [img EXCEPT ![p].status = "deleted"]
    /\ pc' = [pc EXCEPT ![p] = "restore"]
    /\ Event(p, "delete", 0)
    /\ UNCHANGED <<orig, png_files, json_files, params, output, i, agenda,
                   to_save, orig_active_layer, run, prev>>

\* spine_export, line 84
RestoreActive(p) ==
    /\ pc[p] = "restore"
    /\ orig' = [orig EXCEPT !.active = orig_active_layer[p]]
    /\ pc' = [pc EXCEPT ![p] = "done"]
    /\ Event(p, "restore", 0)
    /\ UNCHANGED <<png_files, json_files, params, img, output, i, agenda,
                   to_save, orig_active_layer, run, prev>>

\* Mutant of Abort: the duplicate is deleted on the way out
AbortCleanup(p) ==
    /\ pc' = [pc EXCEPT ![p] = "aborted"]
    /\ img' = [img EXCEPT ![p].status = "deleted"]
    /\ UNCHANGED <<orig, png_files, json_files, params, output, i,
                   agenda, to_save, orig_active_layer, run, prev>>

\* What an uncaught exception leaves behind: nothing is undone
Abort(p) ==
    /\ pc' = [pc EXCEPT ![p] = "aborted"]
    /\ UNCHANGED <<orig, png_files, json_files, params, img, output, i,
                   agenda, to_save, orig_active_layer, run, prev>>

\* A host call or a file write raises after the duplication;
\* spine_export has no try/finally.
Fail(p) ==
    /\ pc[p] \in {"loop", "process", "emit", "save", "delete", "restore"}
    /\ Abort(p)
    /\ Event(p, "fail", 0)

\* The flattening is run a second time on the tree the first run left,
\* from a fresh document (lines 60-74 executed again).
Rerun(p) ==
    /\ LoopDone(p)
    /\ run[p] = 1
    /\ run' = [run EXCEPT ![p] = 2]
    /\ prev' = [prev EXCEPT ![p] = output[p]]
    /\ output' = [output EXCEPT ![p] = FreshOutput]
    /\ i' = [i EXCEPT ![p] = 1]
    /\ UNCHANGED <<orig, png_files, json_files, pc, params, img, agenda,
                   to_save, orig_active_layer, log>>

Next ==
    \E p \in Procs :
        \/ Start(p)
        \/ EnterLayer(p)
        \/ SkipLayer(p)
        \/ Descend(p)
        \/ Autocrop(p)
        \/ Emit(p)
        \/ Return(p)
        \/ SaveLayer(p)
        \/ SaveDone(p)
        \/ WriteJson(p)
        \/ DeleteImage(p)
        \/ RestoreActive(p)

NextFail == Next \/ \E p \in Procs : Fail(p)

NextRerun == Next \/ \E p \in Procs : Rerun(p)

\* ------------------------------------------------------------ initial states
\* Pre-order numbering: the parent of node k is a group among node k-1 and
\* its ancestors, or the image.
WellFormed(n, par, grp) ==
    \A k \in 1..n :
        \/ par[k] = 0
        \/ /\ k > 1
           /\ par[k] < k
           /\ grp[par[k]]
           /\ par[k] \in SelfAndAncestors([j \in 1..n |-> [parent |-> par[j]]],
                                          k - 1)

\* Geometry given to node k where a specification does not vary it
FixedGeom(k) ==
    [offsets |-> <<k, 2 * k>>, width |-> k + 2, height |-> k + 3,
     bbox |-> <<1, 0, k + 1, k + 2>>]

\* Layer geometries: offset, size, and the bounding box of the content
Geoms ==
    { [offsets |-> <<ox, oy>>, width |-> w, height |-> h,
       bbox |-> <<l, t, w - l - r, h - t - b>>] :
        ox \in 0..MaxOff, oy \in 0..MaxOff, w \in 1..MaxSize, h \in 1..MaxSize,
        l \in 0..MaxCrop, r \in 0..MaxCrop, t \in 0..MaxCrop, b \in 0..MaxCrop }

ValidGeom(g) == g.bbox[3] >= 1 /\ g.bbox[4] >= 1

ExampleGeom ==
    [offsets |-> <<10, 20>>, width |-> 100, height |-> 50,
     bbox |-> <<0, 0, 100, 50>>]

Node(par, grp, nm, vis, geom) ==
    [parent |-> par, group |-> grp, name |-> nm, visible |-> vis,
     offsets |-> geom.offsets, width |-> geom.width, height |-> geom.height,
     bbox |-> geom.bbox]

SourceImage(nodes, w, h, act) ==
    [status |-> "live", nodes |-> nodes, width |-> w, height |-> h,
     active |-> act, filename |-> [dir |-> "/home", stem |-> "doc",
                                   ext |-> ".xcf"]]

Params(c, d, j, v, r, a) ==
    [compression |-> c, dir_name |-> d, json_filename |-> j,
     export_visible_only |-> v, reverse_draw_order |-> r,
     autocrop_layers |-> a]

\* Everything but the source image and the parameters
InitLocal(running) ==
    /\ png_files = EmptyMap
    /\ json_files = EmptyMap
    /\ pc = [p \in Procs |-> IF p \in running THEN "start" ELSE "off"]
    /\ img = [p \in Procs |-> NoImage]
    /\ output = [p \in Procs |-> FreshOutput]
    /\ i = [p \in Procs |-> 1]
    /\ agenda = [p \in Procs |-> <<>>]
    /\ to_save = [p \in Procs |-> <<>>]
    /\ orig_active_layer = [p \in Procs |-> 0]
    /\ log = [p \in Procs |-> <<>>]
    /\ run = [p \in Procs |-> 1]
    /\ prev = [p \in Procs |-> FreshOutput]

\* Names are only ever compared for equality, so the leaves are named
\* canonically: a leaf takes a name some earlier leaf has, or the first
\* name of NameList not used yet.
UsedBefore(n, grp, nm, k) == { nm[j] : j \in { q \in 1..(k - 1) : ~grp[q] } }

Canonical(n, grp, nm) ==
    \A k \in 1..n :
        IF grp[k] THEN nm[k] = 1
        ELSE nm[k] <= Cardinality(UsedBefore(n, grp, nm, k)) + 1

\* Source images of at most max nodes: every shape, visibility and naming,
\* geometry fixed per node
TreeImages(max) ==
    UNION { { SourceImage([k \in 1..n |->
                             Node(t[1][k], t[2][k],
                                  IF t[2][k] THEN "group"
                                  ELSE NameList[t[4][k]],
                                  t[3][k], FixedGeom(k))],
                          7, 10, IF n = 0 THEN 0 ELSE 1) :
                t \in { u \in [1..n -> 0..n] \X [1..n -> BOOLEAN]
                             \X [1..n -> BOOLEAN]
                             \X [1..n -> 1..Len(NameList)] :
                        /\ WellFormed(n, u[1], u[2])
                        /\ Canonical(n, u[2], u[4]) } } :
            n \in 0..max }

InitTree ==
    /\ orig \in TreeImages(MaxNodes)
    /\ \E v \in BOOLEAN, r \in BOOLEAN, a \in BOOLEAN :
          params = [p \in Procs |-> Params(0, "/tmp", "", v, r, a)]
    /\ InitLocal({1})

InitSmall ==
    /\ orig \in TreeImages(MaxSmallNodes)
    /\ \E v \in BOOLEAN, r \in BOOLEAN, a \in BOOLEAN :
          params = [p \in Procs |-> Params(9, "/tmp", "skeleton", v, r, a)]
    /\ InitLocal({1})

\* One leaf, alone or inside a group, of every geometry on every canvas
Canvases ==
    { <<w, h>> : w \in (MaxCanvas - 1)..MaxCanvas,
                 h \in (MaxCanvas - 1)..MaxCanvas } \cup { <<200, 200>> }

GeomLeaf(par, nm, vis, g) == Node(par, FALSE, nm, vis, g)

GeomImages ==
    { SourceImage(<< GeomLeaf(0, "a", TRUE, g) >>, c[1], c[2], 1) :
        c \in Canvases,
        g \in { q \in Geoms : ValidGeom(q) } \cup { ExampleGeom } }
    \cup
    { SourceImage(<< Node(0, TRUE, "group", vis, FixedGeom(1)),
                    GeomLeaf(1, "a", TRUE, g),
                    GeomLeaf(0, "b", vis, g) >>, c[1], c[2], 1) :
        vis \in BOOLEAN, c \in Canvases, g \in { ExampleGeom, FixedGeom(2) } }

InitGeom ==
    /\ orig \in GeomImages
    /\ \E a \in BOOLEAN :
          params = [p \in Procs |-> Params(0, "/tmp", "", TRUE, FALSE, a)]
    /\ InitLocal({1})

\* Two invocations on one source image: every leaf under its own name, any
\* layer active
Distinct(nodes) ==
    \A j, k \in 1..Len(nodes) :
        (~nodes[j].group /\ ~nodes[k].group /\ j # k)
            => nodes[j].name # nodes[k].name

ConcImages ==
    { [t EXCEPT !.active = Len(t.nodes)] :
        t \in { u \in TreeImages(MaxSmallNodes) :
                    Len(u.nodes) >= 1 /\ Distinct(u.nodes) } }

InitConc ==
    /\ orig \in ConcImages
    /\ \E a1 \in BOOLEAN, a2 \in BOOLEAN :
          params = [p \in Procs |->
                      IF p = 1 THEN Params(0, "/tmp", "", TRUE, FALSE, a1)
                      ELSE Params(9, "/tmp", "", TRUE, FALSE, a2)]
    /\ InitLocal(Procs)

\* ------------------------------------------------------------ specifications
\* One export, no failure
Spec == InitTree /\ [][Next]_vars

\* One export of one leaf, over the geometries
GeomSpec == InitGeom /\ [][Next]_vars

\* Two exports of the same source image, interleaved
ConcSpec == InitConc /\ [][Next]_vars

\* One export in which a step may raise; a step that does not raise is
\* followed by the next one (the plug-in runs synchronously to its end)
FailSpec == InitSmall /\ [][NextFail]_vars /\ WF_vars(Next)

\* One export whose flattening is run twice
RerunSpec == InitSmall /\ [][NextRerun]_vars

\* ------------------------------------------------------------------ helpers
\* Positions of event <<e, k>> in the history of invocation p
Pos(p, e, k) == { j \in 1..Len(log[p]) : log[p][j] = <<e, k>> }

Happened(p, e, k) == Pos(p, e, k) # {}

\* Every occurrence of <<e2, k2>> comes after some occurrence of <<e1, k1>>
Precedes(p, e1, k1, e2, k2) ==
    \A j2 \in Pos(p, e2, k2) : \E j1 \in Pos(p, e1, k1) : j1 < j2

Ids(p) == 1..Len(img[p].nodes)

Leaves(p) == { k \in Ids(p) : ~img[p].nodes[k].group }

\* Leaves whose slot and attachment were emitted / whose PNG was written
Flattened(p) == { k \in Leaves(p) : Happened(p, "flatten", k) }

Saved(p) == { k \in Leaves(p) : Happened(p, "png", k) }

RECURSIVE Ascending(_)
Ascending(S) ==
    IF S = {} THEN <<>>
    ELSE LET m == CHOOSE x \in S : \A y \in S : x <= y
         IN  <<m>> \o Ascending(S \ {m})

Reversed(s) == [j \in 1..Len(s) |-> s[Len(s) + 1 - j]]

\* Half of a non-negative integer rounded down, stated without division
Half(n) == CHOOSE h \in 0..n : 2 * h <= n /\ n < 2 * h + 2

AttachmentOf(p, k) ==
    output[p].skins.default[img[p].nodes[k].name][img[p].nodes[k].name]

Running == { p \in Procs : pc[p] # "off" }

\* ------------------------------------------------------------------- claims
\* C1: for every exported leaf with offset (ox, oy), size (w, h) on a canvas
\* (W, H), the attachment written to skins.default has
\* x = ox + floor(w/2) - floor(W/2), y = H - (oy + floor(h/2)), rotation 0,
\* and width and height w and h.
C1_AttachmentCoordinates ==
    \A p \in Running : \A k \in Flattened(p) :
        LET l == img[p].nodes[k]
            a == AttachmentOf(p, k)
        IN  /\ a.x = l.offsets[1] + Half(l.width) - Half(img[p].width)
            /\ a.y = img[p].height - (l.offsets[2] + Half(l.height))
            /\ a.rotation = 0
            /\ a.width = l.width
            /\ a.height = l.height

\* The example of the claim: offset (10, 20), size 100x50, canvas 200x200
C1_Witness ==
    \E p \in Running : \E k \in Flattened(p) :
        /\ img[p].nodes[k].offsets = <<10, 20>>
        /\ img[p].nodes[k].width = 100 /\ img[p].nodes[k].height = 50
        /\ img[p].width = 200 /\ img[p].height = 200
        /\ AttachmentOf(p, k).x = -40
        /\ AttachmentOf(p, k).y = 155

\* A leaf is hidden when it, or a group above it, is not visible
Hidden(p, k) ==
    \E a \in SelfAndAncestors(img[p].nodes, k) : ~img[p].nodes[a].visible

\* C2: with export_visible_only, after the export no leaf that is invisible
\* or lies under an invisible group at any depth is in slots, in
\* skins.default or among the saved layers.
C2_HiddenNeverExported ==
    \A p \in Running :
        (pc[p] = "done" /\ params[p].export_visible_only) =>
            \A k \in Leaves(p) :
                Hidden(p, k) => k \notin Flattened(p) /\ k \notin Saved(p)

\* C3: the exported leaves being met in depth-first order as L1..Ln (the
\* pre-order numbering), slots is Ln..L1 without reverse_draw_order and
\* L1..Ln with it.
C3_SlotOrder ==
    \A p \in Running :
        LET met   == Ascending(Flattened(p))
            names == [j \in 1..Len(met) |-> img[p].nodes[met[j]].name]
            slots == [j \in 1..Len(output[p].slots) |-> output[p].slots[j].name]
        IN  slots = IF params[p].reverse_draw_order THEN names
                    ELSE Reversed(names)

\* A finished export of a nested leaf and a later top-level leaf, under
\* different names
C3_Witness ==
    \E p \in Running :
        /\ pc[p] = "done"
        /\ ~params[p].reverse_draw_order
        /\ \E j, k \in Flattened(p) :
              /\ j < k
              /\ img[p].nodes[j].parent # 0
              /\ img[p].nodes[k].parent = 0
              /\ img[p].nodes[j].name # img[p].nodes[k].name

\* C4: with distinct layer names, after the export every leaf handed to
\* save_layers is exactly once in slots (name = attachment = its name, bone
\* "root") and exactly once a key of skins.default, under the name of its
\* file <name>.png; slots, skins.default and the PNG files hold nothing else.
C4_OneSlotOneAttachmentOneFile ==
    \A p \in Running :
        (pc[p] = "done" /\ Distinct(img[p].nodes)) =>
            LET slots  == output[p].slots
                skin   == output[p].skins.default
                nameOf == [k \in Saved(p) |-> img[p].nodes[k].name]
            IN  /\ \A k \in Saved(p) :
                      /\ Cardinality({ j \in 1..Len(slots) :
                                          slots[j].name = nameOf[k] }) = 1
                      /\ SlotRecord(nameOf[k]) \in { slots[j] : j \in 1..Len(slots) }
                      /\ nameOf[k] \in DOMAIN skin
                      /\ DOMAIN skin[nameOf[k]] = {nameOf[k]}
                      /\ PngPath(params[p].dir_name, nameOf[k]) \in DOMAIN png_files
                /\ { slots[j] : j \in 1..Len(slots) }
                      = { SlotRecord(nameOf[k]) : k \in Saved(p) }
                /\ DOMAIN skin = { nameOf[k] : k \in Saved(p) }
                /\ DOMAIN png_files
                      = { PngPath(params[p].dir_name, nameOf[k]) : k \in Saved(p) }
                /\ Len(slots) = Cardinality(Saved(p))
                /\ Cardinality(DOMAIN skin) = Cardinality(Saved(p))
                /\ Cardinality(DOMAIN png_files) = Cardinality(Saved(p))

C4_Witness ==
    \E p \in Running :
        /\ pc[p] = "done"
        /\ Distinct(img[p].nodes)
        /\ Cardinality(Saved(p)) >= 2
        /\ Len(output[p].slots) = Cardinality(Saved(p))

\* C5: with autocrop_layers, every exported leaf is autocropped before its
\* offsets and size are read: x, y, width and height in skins.default come
\* from the post-autocrop values; groups are never autocropped.
C5_AutocropBeforeRead ==
    \A p \in Running :
        params[p].autocrop_layers =>
            /\ \A k \in Flattened(p) :
                  /\ Happened(p, "autocrop", k)
                  /\ Precedes(p, "autocrop", k, "flatten", k)
                  /\ AttachmentOf(p, k)
                        = Attachment(orig, Cropped(orig.nodes[k]))
            /\ \A k \in Ids(p) \ Leaves(p) :
                  /\ ~Happened(p, "autocrop", k)
                  /\ img[p].nodes[k] = orig.nodes[k]

\* An exported leaf whose autocrop changed both its offset and its size
C5_Witness ==
    \E p \in Running : \E k \in Flattened(p) :
        /\ params[p].autocrop_layers
        /\ Cropped(orig.nodes[k]).offsets # orig.nodes[k].offsets
        /\ Cropped(orig.nodes[k]).width # orig.nodes[k].width
        /\ AttachmentOf(p, k) # Attachment(orig, orig.nodes[k])
        /\ AttachmentOf(p, k).width = img[p].nodes[k].width

\* Position of the one "flatten" event of leaf k
FlattenIndex(p, k) == CHOOSE j \in Pos(p, "flatten", k) : TRUE

SameName(p, j, k) == img[p].nodes[j].name = img[p].nodes[k].name

\* k is the last processed of the exported leaves of its name, and not
\* the only one
LastOfSeveral(p, k) ==
    /\ k \in Flattened(p)
    /\ \E j \in Flattened(p) \ {k} : SameName(p, j, k)
    /\ \A j \in Flattened(p) \ {k} :
          SameName(p, j, k) => FlattenIndex(p, j) < FlattenIndex(p, k)

LastWins(p, k) ==
    /\ AttachmentOf(p, k) = Attachment(img[p], img[p].nodes[k])
    /\ png_files[PngPath(params[p].dir_name, img[p].nodes[k].name)]
          = Raster(k, img[p].nodes[k], params[p].compression)

SlotsNamed(p, k) ==
    { j \in 1..Len(output[p].slots) :
        output[p].slots[j].name = img[p].nodes[k].name }

\* C6 as stated: of two exported leaves of one name the later overwrites
\* the earlier one's attachment, file and slot, so that one slot record of
\* that name is left.
C6_LaterOverwritesSlotToo ==
    \A p \in Running :
        pc[p] = "done" =>
            \A k \in Leaves(p) :
                LastOfSeveral(p, k) =>
                    LastWins(p, k) /\ Cardinality(SlotsNamed(p, k)) = 1

\* C6: of the exported leaves of one name the last processed overwrites the
\* others' attachment and file; slots keeps one record for each of them.
C6_LastWriterWins ==
    \A p \in Running :
        pc[p] = "done" =>
            \A k \in Leaves(p) :
                LastOfSeveral(p, k) =>
                    /\ LastWins(p, k)
                    /\ Cardinality(SlotsNamed(p, k))
                          = Cardinality({ j \in Flattened(p) : SameName(p, j, k) })

C6_Witness ==
    \E p \in Running : \E j, k \in Flattened(p) :
        /\ pc[p] = "done"
        /\ j # k
        /\ LastOfSeveral(p, k)
        /\ SameName(p, j, k)
        /\ Attachment(img[p], img[p].nodes[j]) # AttachmentOf(p, k)
        /\ Cardinality(SlotsNamed(p, k)) = 2

\* C7: the flattening run twice on the same tree with the same options
\* gives the same slots and the same skins.default; without autocrop a run
\* leaves the tree as it was.
C7_Idempotent ==
    \A p \in Running :
        /\ (run[p] = 2 /\ LoopDone(p)) =>
              /\ output[p].slots = prev[p].slots
              /\ output[p].skins = prev[p].skins
        /\ (~params[p].autocrop_layers /\ img[p].status = "live") =>
              img[p].nodes = orig.nodes

\* Both runs finished, with autocrop, over at least two exported leaves
C7_Witness ==
    \E p \in Running :
        /\ run[p] = 2
        /\ LoopDone(p)
        /\ params[p].autocrop_layers
        /\ Len(output[p].slots) >= 2
        /\ img[p].nodes # orig.nodes

\* The leaves the export loop reaches: those under a top-level layer that
\* passes the test of the loop
Reached(p) ==
    { k \in Leaves(p) :
        \E a \in SelfAndAncestors(img[p].nodes, k) :
            /\ img[p].nodes[a].parent = 0
            /\ Selected(img[p].nodes[a], params[p].export_visible_only) }

Once(p, e, k) == Cardinality(Pos(p, e, k)) <= 1

\* C8: duplicate; flatten and export every leaf; write the manifest once,
\* after the whole tree is flattened and every image written; delete the
\* duplicate; restore the active layer. Nothing is flattened or written
\* after the manifest.
C8_StepOrder ==
    \A p \in Running :
        /\ pc[p] # "start" => log[p] # <<>> /\ log[p][1] = <<"duplicate", 0>>
        /\ \A e \in {"duplicate", "json", "delete", "restore"} : Once(p, e, 0)
        /\ \A k \in Ids(p) :
              /\ Once(p, "flatten", k) /\ Once(p, "png", k)
              /\ Precedes(p, "flatten", k, "png", k)
              /\ \A j \in Pos(p, "flatten", k) \cup Pos(p, "png", k) :
                    \A m \in Pos(p, "json", 0) : j < m
        /\ Happened(p, "json", 0) =>
              \A k \in Reached(p) :
                  Happened(p, "flatten", k) /\ Happened(p, "png", k)
        /\ Precedes(p, "json", 0, "delete", 0)
        /\ Precedes(p, "delete", 0, "restore", 0)
        /\ Happened(p, "json", 0) <=> json_files # EmptyMap
        /\ Happened(p, "delete", 0) <=> img[p].status = "deleted"
        /\ pc[p] = "done" <=> Happened(p, "restore", 0)

\* A finished export that wrote the images of two top-level layers
C8_Witness ==
    \E p \in Running : \E j, k \in Saved(p) :
        /\ pc[p] = "done"
        /\ j < k
        /\ img[p].nodes[k].parent = 0
        /\ log[p][Len(log[p])] = <<"restore", 0>>
        /\ FlattenIndex(p, k) > CHOOSE m \in Pos(p, "png", j) : TRUE

\* C9: the duplicate is deleted only on the normal path. An export that
\* fails before the deletion stops with the duplicate still there; one in
\* which no step fails does delete it.
C9_CleanupOnlyOnNormalReturn ==
    /\ [](\A p \in Procs :
            (pc[p] = "aborted" /\ ~Happened(p, "delete", 0))
                => img[p].status = "live")
    /\ [](\A p \in Procs :
            img[p].status = "deleted"
                => /\ Happened(p, "json", 0)
                   /\ Precedes(p, "delete", 0, "fail", 0)
                   /\ Happened(p, "delete", 0))
    /\ \A p \in Procs :
          (img[p].status = "live")
              ~> (pc[p] = "aborted" \/ img[p].status = "deleted")

\* A failed export: the duplicate left, images on disk, no manifest
C9_Witness ==
    \E p \in Running :
        /\ pc[p] = "aborted"
        /\ img[p].status = "live"
        /\ png_files # EmptyMap
        /\ json_files = EmptyMap

\* C10: whatever the interleaving of two exports of one source image, the
\* source's layer tree never changes; autocrops and active-layer changes
\* land in the invocation's own duplicate, and the source is written only
\* to restore the active layer read at the start.
C10_SourceUntouched ==
    [][ /\ orig'.nodes = orig.nodes
        /\ orig'.width = orig.width /\ orig'.height = orig.height
        /\ orig'.active # orig.active =>
              \E p \in Procs : /\ pc[p] = "restore"
                                /\ orig'.active = orig_active_layer[p]
        /\ \A q \in Procs : img'[q] # img[q] => log'[q] # log[q] ]_vars

\* Both exports under way, one of them having autocropped its duplicate
C10_Witness ==
    /\ \A p \in Procs : img[p].status = "live"
    /\ img[1].nodes # orig.nodes
    /\ img[2].nodes = orig.nodes
    /\ Flattened(2) # {}
====
